---- MODULE Spec2Model ----
(***************************************************************************)
(* Model of injector-integration-tests/runtimes/python/app.py: a test      *)
(* application that dispatches on sys.argv[1] and echoes either an         *)
(* environment variable or the attribute                                   *)
(* builtins.otel_injector_python_no_op_agent_has_been_loaded.              *)
(*                                                                         *)
(* sys.argv is modelled as a TLA+ sequence, so Python's sys.argv[i] is      *)
(* argv[i + 1] and len(sys.argv) is Len(argv).  Python's None / "str" for   *)
(* the result of os.environ.get is modelled as << >> / << "str" >>.        *)
(***************************************************************************)
EXTENDS Integers, Sequences, FiniteSets, TLC

(* ------------------------------ bounds -------------------------------- *)

\* Largest len(sys.argv) explored (program name included).
MaxArgc == 4

(* --------------------------- input universes -------------------------- *)

ProgramName == "app.py"

\* Strings that may appear as sys.argv[1:]: the four commands, a
\* differently-cased command that is also the name of a variable, and the
\* empty string (never the name of a variable).
ArgStrings ==
    { "pythonpath",
      "verify-auto-instrumentation-agent-has-been-injected",
      "otel-resource-attributes",
      "custom-env-var",
      "PYTHONPATH",
      "" }

\* Names that may be set in the process environment.
EnvNames == { "PYTHONPATH", "OTEL_RESOURCE_ATTRIBUTES" }

\* Values an environment variable may be set to (the empty string included).
EnvValues == { "", "/opt/otel" }

RECURSIVE SeqsUpTo(_, _)
SeqsUpTo(S, n) ==
    IF n = 0 THEN { << >> }
    ELSE LET shorter == SeqsUpTo(S, n - 1)
         IN  shorter \cup { Append(s, x) : s \in { t \in shorter : Len(t) = n - 1 }, x \in S }

\* All argument vectors: the program name followed by up to MaxArgc - 1 strings.
ArgvSet == { <<ProgramName>> \o t : t \in SeqsUpTo(ArgStrings, MaxArgc - 1) }

\* All environments: a mapping from a subset of EnvNames to EnvValues.
EnvSet == UNION { [D -> EnvValues] : D \in SUBSET EnvNames }

\* States of the attribute otel_injector_python_no_op_agent_has_been_loaded
\* of the builtins module: never set, or set to None, a bool or a str.
Absent    == [t |-> "absent", b |-> FALSE, s |-> ""]
PyNone    == [t |-> "none",   b |-> FALSE, s |-> ""]
PyBool(b) == [t |-> "bool",   b |-> b,     s |-> ""]
PyStr(s)  == [t |-> "str",    b |-> FALSE, s |-> s]

MarkerSet == { Absent, PyNone, PyBool(FALSE), PyBool(TRUE), PyStr(""), PyStr("true") }

(* ------------------------- Python semantics --------------------------- *)

\* Variant of os_environ_get that falls back to PYTHONPATH when the
\* requested variable is unset.
os_environ_get_fallback(e, name) ==
    IF name \in DOMAIN e THEN << e[name] >>
    ELSE IF "PYTHONPATH" \in DOMAIN e THEN << e["PYTHONPATH"] >>
    ELSE << >>

\* os.environ.get(name): None when the variable is unset.
os_environ_get(e, name) ==
    IF name \in DOMAIN e THEN << e[name] >> ELSE << >>

\* "not env_var_value" for an Optional[str]: None and "" are falsy.
env_value_is_falsy(v) == v = << >> \/ v = << "" >>

\* hasattr(builtins, "otel_injector_python_no_op_agent_has_been_loaded")
builtins_has_marker(m) == m.t # "absent"

\* "not value" for the marker object.
marker_is_falsy(m) ==
    CASE m.t = "none" -> TRUE
      [] m.t = "bool" -> ~ m.b
      [] m.t = "str"  -> m.s = ""
      [] OTHER        -> TRUE

\* str(value) as used by the f-string on line 22.
py_str(m) ==
    CASE m.t = "none" -> "None"
      [] m.t = "bool" -> (IF m.b THEN "True" ELSE "False")
      [] m.t = "str"  -> m.s
      [] OTHER        -> ""

(* ------------------------------ texts --------------------------------- *)

MarkerName == "otel_injector_python_no_op_agent_has_been_loaded"

NotEnoughArgumentsMsg ==
    "error: not enough arguments, the command for the app under test needs to be specifed\n"

CustomEnvVarMissingArgMsg ==
    "error: custom-env-var command requires an additional argument\n"

\* Variant of UnknownCommandMsg that leaves the command out of the message.
UnknownCommandMsg_without_command(cmd) == "unknown test app command\n"

UnknownCommandMsg(cmd) == "unknown test app command: " \o cmd \o "\n"

\* Last line of the traceback the interpreter prints for the uncaught
\* AttributeError raised by line 18.
AttributeErrorMsg ==
    "AttributeError: module 'builtins' has no attribute 'otel_injector_python_no_op_agent_has_been_loaded'\n"

\* Variant of echo_env_var_text that tests "is None" instead of "not".
echo_env_var_text_is_none(name, v) ==
    IF v = << >> THEN name \o ": -"
    ELSE name \o ": " \o v[1]

\* Text written by echo_env_var.
echo_env_var_text(name, v) ==
    IF env_value_is_falsy(v) THEN name \o ": -"
    ELSE name \o ": " \o v[1]

\* Text written by echo_builtin_property.
echo_builtin_property_text(m) ==
    IF marker_is_falsy(m) THEN MarkerName \o ": -"
    ELSE MarkerName \o ": " \o py_str(m)

(* ------------------------------ state --------------------------------- *)

VARIABLES
    argv,           \* sys.argv
    environ,        \* os.environ
    builtins,       \* builtins.otel_injector_python_no_op_agent_has_been_loaded
    pc,             \* position in the program
    command,        \* local of main: << >> until assigned
    env_var_name,   \* parameter of echo_env_var: << >> until called
    env_var_value,  \* local of echo_env_var: << >> until assigned
    value,          \* local of echo_builtin_property: << >> until assigned
    stdout,         \* sequence of the texts passed to sys.stdout.write
    stderr,         \* sequence of the texts written to sys.stderr
    exit_status,    \* << >> while running, << n >> once the process has exited
    reads           \* history: the lookups performed so far

vars == << argv, environ, builtins, pc, command, env_var_name, env_var_value,
           value, stdout, stderr, exit_status, reads >>

inputs == << argv, environ, builtins >>
locals == << command, env_var_name, env_var_value, value >>

EnvRead(name) == [kind |-> "environ", name |-> name]
MarkerRead    == [kind |-> "builtins", name |-> MarkerName]

Init ==
    /\ argv \in ArgvSet
    /\ environ \in EnvSet
    /\ builtins \in MarkerSet
    /\ pc = "main"
    /\ command = << >>
    /\ env_var_name = << >>
    /\ env_var_value = << >>
    /\ value = << >>
    /\ stdout = << >>
    /\ stderr = << >>
    /\ exit_status = << >>
    /\ reads = {}

(* ----------------------------- process exit --------------------------- *)

\* sys.exit(n), and the interpreter's exit after main() returns or raises.
Exit(n) ==
    /\ exit_status' = << n >>
    /\ pc' = "done"

\* Call of echo_env_var(name): bind the parameter and enter the function.
CallEchoEnvVar(name) ==
    /\ env_var_name' = << name >>
    /\ pc' = "echo_env_var"
    /\ UNCHANGED << inputs, command, env_var_value, value,
                    stdout, stderr, exit_status, reads >>

(* ------------------------------- main --------------------------------- *)

\* Variant of MainNotEnoughArguments that writes the error with
\* sys.stdout.write.
MainNotEnoughArguments_to_stdout ==
    /\ pc = "main"
    /\ Len(argv) < 2
    /\ stdout' = Append(stdout, NotEnoughArgumentsMsg)
    /\ Exit(1)
    /\ UNCHANGED << inputs, locals, stderr, reads >>

\* Lines 25-27: len(sys.argv) < 2.
MainNotEnoughArguments ==
    /\ pc = "main"
    /\ Len(argv) < 2
    /\ stderr' = Append(stderr, NotEnoughArgumentsMsg)
    /\ Exit(1)
    /\ UNCHANGED << inputs, locals, stdout, reads >>

\* Line 29: command = sys.argv[1].
MainReadCommand ==
    /\ pc = "main"
    /\ ~ (Len(argv) < 2)
    /\ command' = << argv[2] >>
    /\ pc' = "dispatch"
    /\ UNCHANGED << inputs, env_var_name, env_var_value, value,
                    stdout, stderr, exit_status, reads >>

\* Lines 31-32.
DispatchPythonpath ==
    /\ pc = "dispatch"
    /\ command[1] = "pythonpath"
    /\ CallEchoEnvVar("PYTHONPATH")

\* Lines 33-34.
DispatchVerify ==
    /\ pc = "dispatch"
    /\ command[1] # "pythonpath"
    /\ command[1] = "verify-auto-instrumentation-agent-has-been-injected"
    /\ pc' = "echo_builtin_property"
    /\ UNCHANGED << inputs, locals, stdout, stderr, exit_status, reads >>

\* Lines 35-36.
DispatchOtelResourceAttributes ==
    /\ pc = "dispatch"
    /\ command[1] \notin { "pythonpath",
                            "verify-auto-instrumentation-agent-has-been-injected" }
    /\ command[1] = "otel-resource-attributes"
    /\ CallEchoEnvVar("OTEL_RESOURCE_ATTRIBUTES")

\* Guard of line 37, reached after the three earlier comparisons failed.
IsCustomEnvVarBranch ==
    /\ command[1] \notin { "pythonpath",
                            "verify-auto-instrumentation-agent-has-been-injected",
                            "otel-resource-attributes" }
    /\ command[1] = "custom-env-var"

\* Variant of DispatchCustomEnvVarMissingArgument that, instead of
\* rejecting the run, echoes the variable named by the last argument
\* (sys.argv[-1]).
DispatchCustomEnvVarMissingArgument_last_argument ==
    /\ pc = "dispatch"
    /\ IsCustomEnvVarBranch
    /\ Len(argv) < 3
    /\ CallEchoEnvVar(argv[Len(argv)])

\* Lines 37-40: len(sys.argv) < 3.
DispatchCustomEnvVarMissingArgument ==
    /\ pc = "dispatch"
    /\ IsCustomEnvVarBranch
    /\ Len(argv) < 3
    /\ stderr' = Append(stderr, CustomEnvVarMissingArgMsg)
    /\ Exit(1)
    /\ UNCHANGED << inputs, locals, stdout, reads >>

\* Lines 37-38, 41: echo_env_var(sys.argv[2]).
DispatchCustomEnvVar ==
    /\ pc = "dispatch"
    /\ IsCustomEnvVarBranch
    /\ ~ (Len(argv) < 3)
    /\ CallEchoEnvVar(argv[3])

\* Lines 42-44.
DispatchUnknownCommand ==
    /\ pc = "dispatch"
    /\ command[1] \notin { "pythonpath",
                            "verify-auto-instrumentation-agent-has-been-injected",
                            "otel-resource-attributes",
                            "custom-env-var" }
    /\ stderr' = Append(stderr, UnknownCommandMsg(command[1]))
    /\ Exit(1)
    /\ UNCHANGED << inputs, locals, stdout, reads >>

(* --------------------------- echo_env_var ----------------------------- *)

\* Variant of EchoEnvVarGet that uses os.environ.pop(env_var_name, None).
EchoEnvVarGet_pop ==
    /\ pc = "echo_env_var"
    /\ env_var_value' = << os_environ_get(environ, env_var_name[1]) >>
    /\ environ' = [n \in DOMAIN environ \ { env_var_name[1] } |-> environ[n]]
    /\ reads' = reads \cup { EnvRead(env_var_name[1]) }
    /\ pc' = "echo_env_var_write"
    /\ UNCHANGED << argv, builtins, command, env_var_name, value,
                    stdout, stderr, exit_status >>

\* Line 10: env_var_value = os.environ.get(env_var_name).
EchoEnvVarGet ==
    /\ pc = "echo_env_var"
    /\ env_var_value' = << os_environ_get(environ, env_var_name[1]) >>
    /\ reads' = reads \cup { EnvRead(env_var_name[1]) }
    /\ pc' = "echo_env_var_write"
    /\ UNCHANGED << inputs, command, env_var_name, value,
                    stdout, stderr, exit_status >>

\* Variant of EchoEnvVarWrite that uses print, which writes the text and
\* then a newline.
EchoEnvVarWrite_print ==
    /\ pc = "echo_env_var_write"
    /\ stdout' = stdout \o << echo_env_var_text(env_var_name[1], env_var_value[1]), "\n" >>
    /\ pc' = "return"
    /\ UNCHANGED << inputs, locals, stderr, exit_status, reads >>

\* Lines 11-14: the single sys.stdout.write of echo_env_var, then return.
EchoEnvVarWrite ==
    /\ pc = "echo_env_var_write"
    /\ stdout' = Append(stdout, echo_env_var_text(env_var_name[1], env_var_value[1]))
    /\ pc' = "return"
    /\ UNCHANGED << inputs, locals, stderr, exit_status, reads >>

(* ----------------------- echo_builtin_property ------------------------ *)

\* Line 18 when the attribute exists: value = builtins.<marker>.
EchoBuiltinPropertyRead ==
    /\ pc = "echo_builtin_property"
    /\ builtins_has_marker(builtins)
    /\ value' = << builtins >>
    /\ reads' = reads \cup { MarkerRead }
    /\ pc' = "echo_builtin_property_write"
    /\ UNCHANGED << inputs, command, env_var_name, env_var_value,
                    stdout, stderr, exit_status >>

\* Line 18 when the attribute does not exist: the attribute access raises
\* AttributeError, nothing catches it, the interpreter prints the traceback
\* to sys.stderr and exits with status 1.
EchoBuiltinPropertyRaise ==
    /\ pc = "echo_builtin_property"
    /\ ~ builtins_has_marker(builtins)
    /\ reads' = reads \cup { MarkerRead }
    /\ stderr' = Append(stderr, AttributeErrorMsg)
    /\ Exit(1)
    /\ UNCHANGED << inputs, locals, stdout >>

\* Lines 19-22: the single sys.stdout.write of echo_builtin_property.
EchoBuiltinPropertyWrite ==
    /\ pc = "echo_builtin_property_write"
    /\ stdout' = Append(stdout, echo_builtin_property_text(value[1]))
    /\ pc' = "return"
    /\ UNCHANGED << inputs, locals, stderr, exit_status, reads >>

(* ------------------------------ return -------------------------------- *)

\* main() returns to line 48 and the interpreter exits with status 0.
MainReturn ==
    /\ pc = "return"
    /\ Exit(0)
    /\ UNCHANGED << inputs, locals, stdout, stderr, reads >>

Next ==
    \/ MainNotEnoughArguments
    \/ MainReadCommand
    \/ DispatchPythonpath
    \/ DispatchVerify
    \/ DispatchOtelResourceAttributes
    \/ DispatchCustomEnvVarMissingArgument
    \/ DispatchCustomEnvVar
    \/ DispatchUnknownCommand
    \/ EchoEnvVarGet
    \/ EchoEnvVarWrite
    \/ EchoBuiltinPropertyRead
    \/ EchoBuiltinPropertyRaise
    \/ EchoBuiltinPropertyWrite
    \/ MainReturn

Spec == Init /\ [][Next]_vars

TypeOK ==
    /\ argv \in ArgvSet
    /\ environ \in EnvSet
    /\ builtins \in MarkerSet
    /\ pc \in { "main", "dispatch", "echo_env_var", "echo_env_var_write",
                 "echo_builtin_property", "echo_builtin_property_write",
                 "return", "done" }
    /\ exit_status \in { << >>, <<0>>, <<1>> }

(* ------------------- the program as a single function ------------------ *)

Outcome(out, err, status) == [stdout |-> out, stderr |-> err, exit_status |-> status]

\* echo_env_var(env_var_name) followed by the return of main (lines 9-14).
echo_env_var(e, name) ==
    Outcome(<< echo_env_var_text(name, os_environ_get(e, name)) >>, << >>, 0)

\* echo_builtin_property() followed by the return of main (lines 17-22).
echo_builtin_property(m) ==
    IF ~ builtins_has_marker(m)
    THEN Outcome(<< >>, << AttributeErrorMsg >>, 1)
    ELSE Outcome(<< echo_builtin_property_text(m) >>, << >>, 0)

\* main() run to completion on sys.argv = a, os.environ = e and marker m
\* (lines 24-44).
main(a, e, m) ==
    IF Len(a) < 2
    THEN Outcome(<< >>, << NotEnoughArgumentsMsg >>, 1)
    ELSE LET cmd == a[2] IN
         IF cmd = "pythonpath"
         THEN echo_env_var(e, "PYTHONPATH")
         ELSE IF cmd = "verify-auto-instrumentation-agent-has-been-injected"
         THEN echo_builtin_property(m)
         ELSE IF cmd = "otel-resource-attributes"
         THEN echo_env_var(e, "OTEL_RESOURCE_ATTRIBUTES")
         ELSE IF cmd = "custom-env-var"
         THEN IF Len(a) < 3
              THEN Outcome(<< >>, << CustomEnvVarMissingArgMsg >>, 1)
              ELSE echo_env_var(e, a[3])
         ELSE Outcome(<< >>, << UnknownCommandMsg(cmd) >>, 1)

(* ======================= vocabulary of the properties ================== *)

Done == pc = "done"

HasCommand == Len(argv) >= 2

RecognizedCommands ==
    { "pythonpath",
      "verify-auto-instrumentation-agent-has-been-injected",
      "otel-resource-attributes",
      "custom-env-var" }

IsVerifyRun == HasCommand /\ argv[2] = "verify-auto-instrumentation-agent-has-been-injected"

IsCustomEnvVarRun == HasCommand /\ argv[2] = "custom-env-var"

MissingSubcommand == ~ HasCommand

MissingCustomEnvVarArgument == IsCustomEnvVarRun /\ Len(argv) < 3

UnknownSubcommand == HasCommand /\ argv[2] \notin RecognizedCommands

\* The run is one of the three environment-echoing commands, with its
\* required argument.
IsEnvEchoRun ==
    /\ HasCommand
    /\ \/ argv[2] \in { "pythonpath", "otel-resource-attributes" }
       \/ argv[2] = "custom-env-var" /\ Len(argv) >= 3

\* The label of an environment-echoing run.
EnvLabel ==
    CASE argv[2] = "pythonpath"               -> "PYTHONPATH"
      [] argv[2] = "otel-resource-attributes" -> "OTEL_RESOURCE_ATTRIBUTES"
      [] OTHER                                -> argv[3]

UnsetOrEmpty(e, n) == n \notin DOMAIN e \/ e[n] = ""

\* The text a stream holds: the concatenation of the writes made to it.
RECURSIVE Text(_)
Text(writes) ==
    IF writes = << >> THEN "" ELSE writes[1] \o Text(Tail(writes))

(* ============================== properties ============================= *)

\* C1: when a run of pythonpath, otel-resource-attributes or
\* custom-env-var <name> has finished, the text on standard output is
\* exactly "<label>: -" if the labelled variable is unset or set to the
\* empty string, and exactly "<label>: <value>" with the variable's own
\* value otherwise.
EchoEnvVarOutput ==
    (Done /\ IsEnvEchoRun) =>
        Text(stdout) = IF UnsetOrEmpty(environ, EnvLabel)
                       THEN EnvLabel \o ": -"
                       ELSE EnvLabel \o ": " \o environ[EnvLabel]

\* A custom-env-var run has echoed a set, non-empty variable.
EchoEnvVarOutputWitness ==
    /\ Done
    /\ argv = << ProgramName, "custom-env-var", "PYTHONPATH" >>
    /\ "PYTHONPATH" \in DOMAIN environ
    /\ environ["PYTHONPATH"] = "/opt/otel"
    /\ stdout = << "PYTHONPATH: /opt/otel" >>

\* The marker values Python treats as false.
FalsyMarkers == { PyNone, PyBool(FALSE), PyStr("") }

\* C2: when a run of verify-auto-instrumentation-agent-has-been-injected
\* has finished, standard output holds "<marker name>: -" if the marker is
\* absent or falsy and "<marker name>: <value>" if it is present and truthy.
MarkerEchoOutput ==
    (Done /\ IsVerifyRun) =>
        Text(stdout) = IF builtins = Absent \/ builtins \in FalsyMarkers
                       THEN MarkerName \o ": -"
                       ELSE MarkerName \o ": " \o py_str(builtins)

RecognizedWithRequiredArgument ==
    /\ HasCommand
    /\ argv[2] \in RecognizedCommands
    /\ argv[2] = "custom-env-var" => Len(argv) >= 3

\* C3: a finished run has exit status 0 exactly when the first argument is
\* a recognized command whose required argument is present, and 1 exactly
\* when the subcommand is missing, custom-env-var lacks its argument or the
\* command is unrecognized.
ExitStatusByArguments ==
    Done =>
        /\ exit_status \in { <<0>>, <<1>> }
        /\ exit_status = <<0>> <=> RecognizedWithRequiredArgument
        /\ exit_status = <<1>> <=>
               (MissingSubcommand \/ MissingCustomEnvVarArgument \/ UnknownSubcommand)

\* C4: a run whose first argument is not exactly one of the four commands
\* never writes to standard output and never looks anything up, and once
\* finished it has written "unknown test app command: <command>" (and a
\* newline) to standard error and exited with status 1.
UnknownCommandRejected ==
    UnknownSubcommand =>
        /\ stdout = << >>
        /\ reads = {}
        /\ Done => /\ Text(stderr) = "unknown test app command: " \o argv[2] \o "\n"
                   /\ exit_status = <<1>>

\* The differently-cased PYTHONPATH has been rejected as a command.
UnknownCommandRejectedWitness ==
    /\ Done
    /\ HasCommand
    /\ argv[2] = "PYTHONPATH"
    /\ stderr = << "unknown test app command: PYTHONPATH\n" >>
    /\ exit_status = <<1>>

\* C5: a run whose argument vector holds only the program name never
\* writes to standard output, and once finished it has written the usage
\* error to standard error and exited with a nonzero status.
MissingSubcommandRejected ==
    MissingSubcommand =>
        /\ stdout = << >>
        /\ Done => /\ Text(stderr) =
                        "error: not enough arguments, the command for the app under test needs to be specifed\n"
                   /\ exit_status # << >>
                   /\ exit_status # <<0>>

\* A run without a subcommand has finished, with the marker set and a
\* variable in the environment.
MissingSubcommandRejectedWitness ==
    /\ Done
    /\ argv = << ProgramName >>
    /\ stderr # << >>
    /\ builtins = PyBool(TRUE)
    /\ "PYTHONPATH" \in DOMAIN environ

\* C6: a custom-env-var run without a second argument never performs a
\* lookup and never writes to standard output, and once finished it has
\* written "error: custom-env-var command requires an additional argument"
\* (and a newline) to standard error and exited with status 1.
CustomEnvVarArgumentChecked ==
    MissingCustomEnvVarArgument =>
        /\ reads = {}
        /\ stdout = << >>
        /\ pc \notin { "echo_env_var", "echo_env_var_write" }
        /\ Done => /\ Text(stderr) =
                        "error: custom-env-var command requires an additional argument\n"
                   /\ exit_status = <<1>>

\* custom-env-var without a name has finished although a variable named
\* like the command's last argument could have been looked up.
CustomEnvVarArgumentCheckedWitness ==
    /\ Done
    /\ argv = << ProgramName, "custom-env-var" >>
    /\ stderr = << CustomEnvVarMissingArgMsg >>
    /\ environ # << >>

\* The label a successful run prints.
RunLabel == IF IsVerifyRun THEN MarkerName ELSE EnvLabel

\* The value a successful run looked up is missing or empty.
LookedUpMissingOrEmpty ==
    IF IsVerifyRun THEN builtins \in { Absent, PyStr("") }
    ELSE UnsetOrEmpty(environ, EnvLabel)

\* The texts a printed value can be: none ends in a newline.
ValueTexts == { "-", "/opt/otel", "None", "True", "False", "true" }

\* C7: no run writes to standard output more than once or to both
\* streams; a run that exited with status 0 made exactly one write,
\* "<label>: <value>" without a newline, where <value> is "-" when the
\* looked-up value is missing or empty; a run that exited with a nonzero
\* status made no write to standard output.
SingleOutputWrite ==
    /\ Len(stdout) <= 1
    /\ ~ (stdout # << >> /\ stderr # << >>)
    /\ (Done /\ exit_status = <<0>>) =>
           /\ Len(stdout) = 1
           /\ \E v \in ValueTexts :
                  /\ stdout[1] = RunLabel \o ": " \o v
                  /\ LookedUpMissingOrEmpty => v = "-"
    /\ (Done /\ exit_status # <<0>>) => stdout = << >>

\* A successful run has printed a dash for an empty variable.
SingleOutputWriteWitness ==
    /\ Done
    /\ exit_status = <<0>>
    /\ HasCommand
    /\ argv[2] = "otel-resource-attributes"
    /\ "OTEL_RESOURCE_ATTRIBUTES" \in DOMAIN environ
    /\ environ["OTEL_RESOURCE_ATTRIBUTES"] = ""
    /\ stdout = << "OTEL_RESOURCE_ATTRIBUTES: -" >>

\* C8: a run that ended in failure is a missing subcommand, a missing
\* custom-env-var argument or an unknown subcommand, has a message on
\* standard error and exit status 1; no other failure is reachable.
OnlyUserInputFailures ==
    (Done /\ exit_status # <<0>>) =>
        /\ MissingSubcommand \/ MissingCustomEnvVarArgument \/ UnknownSubcommand
        /\ stderr # << >>
        /\ exit_status = <<1>>

\* The lookups the command of this run names.
AllowedReads ==
    IF ~ HasCommand THEN {}
    ELSE CASE argv[2] = "pythonpath" -> { EnvRead("PYTHONPATH") }
           [] argv[2] = "otel-resource-attributes" -> { EnvRead("OTEL_RESOURCE_ATTRIBUTES") }
           [] argv[2] = "custom-env-var" /\ Len(argv) >= 3 -> { EnvRead(argv[3]) }
           [] argv[2] = "verify-auto-instrumentation-agent-has-been-injected" -> { MarkerRead }
           [] OTHER -> {}

\* C9: no step of any run changes the environment or the marker, and the
\* lookups performed are at most the one the command names.
ReadOnlyEnvironment ==
    [][ /\ environ' = environ
        /\ builtins' = builtins
        /\ reads' \subseteq AllowedReads' ]_vars

\* A custom-env-var run has looked up its variable, which is set.
ReadOnlyEnvironmentWitness ==
    /\ Done
    /\ IsCustomEnvVarRun
    /\ reads = { EnvRead("PYTHONPATH") }
    /\ "PYTHONPATH" \in DOMAIN environ
    /\ exit_status = <<0>>

Min(x, y) == IF x <= y THEN x ELSE y

\* The arguments the run depends on: the command, and the variable name
\* for custom-env-var.
RelevantArgc(a) == IF Len(a) >= 2 /\ a[2] = "custom-env-var" THEN 3 ELSE 2

ArgPrefix(a) == SubSeq(a, 1, Min(Len(a), RelevantArgc(a)))

\* The environment variable the command names, if any.
NamedVars(a) ==
    IF Len(a) < 2 THEN {}
    ELSE CASE a[2] = "pythonpath" -> { "PYTHONPATH" }
           [] a[2] = "otel-resource-attributes" -> { "OTEL_RESOURCE_ATTRIBUTES" }
           [] a[2] = "custom-env-var" /\ Len(a) >= 3 -> { a[3] }
           [] OTHER -> {}

SameAt(e1, e2, n) ==
    /\ n \in DOMAIN e1 <=> n \in DOMAIN e2
    /\ n \in DOMAIN e1 => e1[n] = e2[n]

\* Argument vectors that differ from a only in extra trailing arguments,
\* those after the command (after the variable name for custom-env-var).
\* An argument appended to a vector that lacks the command or the name
\* would become the command or the name, so such a vector has no variant.
ArgvVariants(a) ==
    IF Len(a) < RelevantArgc(a) THEN { a }
    ELSE { ArgPrefix(a) \o t : t \in SeqsUpTo(ArgStrings, MaxArgc - RelevantArgc(a)) }

\* Environments that differ from e only in variables the command does not name.
EnvVariants(a, e) == { e2 \in EnvSet : \A n \in NamedVars(a) : SameAt(e, e2, n) }

\* Marker states that differ only when the command does not read the marker.
MarkerVariants(a, m) ==
    IF Len(a) >= 2 /\ a[2] = "verify-auto-instrumentation-agent-has-been-injected"
    THEN { m } ELSE MarkerSet

\* C10: the outcome of a finished run (standard output, standard error,
\* exit status) is also the outcome of every run that differs from it only
\* in extra trailing arguments, only in environment variables other than
\* the one named, or only in the marker when the command does not read it.
OutcomeDependsOnlyOnLookup ==
    Done =>
        LET o == Outcome(stdout, stderr, exit_status[1]) IN
        /\ \A a2 \in ArgvVariants(argv) : main(a2, environ, builtins) = o
        /\ \A e2 \in EnvVariants(argv, environ) : main(argv, e2, builtins) = o
        /\ \A m2 \in MarkerVariants(argv, builtins) : main(argv, environ, m2) = o

\* custom-env-var PYTHONPATH has finished with a trailing argument, the
\* other variable set and the marker absent.
OutcomeDependsOnlyOnLookupWitness ==
    /\ Done
    /\ argv = << ProgramName, "custom-env-var", "PYTHONPATH", "pythonpath" >>
    /\ "OTEL_RESOURCE_ATTRIBUTES" \in DOMAIN environ
    /\ "PYTHONPATH" \notin DOMAIN environ
    /\ builtins = Absent
    /\ stdout = << "PYTHONPATH: -" >>

====
